---- MODULE Spec2Model ----
(***************************************************************************)
(* Verification model of scripts/etymology.py: the wikitext etymology      *)
(* pipeline (section extraction, template resolution, link flattening,     *)
(* markup scrubbing, quality gate) and the front-matter persistence layer. *)
(* Text is modelled character by character: a string is a sequence of      *)
(* one-character strings.                                                  *)
(***************************************************************************)
EXTENDS Integers, Sequences, FiniteSets, TLC

VARIABLES
    raw,        \* scrubber run: the text handed to the scrubber
    scrubOut,   \* scrubber run: the outputs of the successive scrubs
    tname,      \* template run: the template name as written
    tparts,     \* template run: the '|'-separated parts after the name
    fragment,   \* template run: what parse_wiki_template returned (wrapped)
    around,     \* template run: the text before and after the template
    resolved,   \* template run: the resolver's output on the surrounded template
    page,       \* pipeline run: the structure the page markup is built from
    wikitext,   \* pipeline run: the raw page markup
    etymology,  \* pipeline run: the working text
    prev,       \* pipeline run: the text before the last resolver pass
    passes,     \* pipeline run: resolver passes run so far
    flattens,   \* pipeline run: link-flattening passes run so far
    result,     \* pipeline run: the returned value (wrapped), once done
    pc,         \* pipeline run: position in fetch_etymology_parse_api
    files,      \* persistence run: path -> dictionary file
    returned,   \* persistence run: path -> last value process_word_file returned
    written,    \* persistence run: the paths write_text was called on
    prose,      \* prose run: the structure the prose text is built from
    proseText,  \* prose run: the text handed to format_etymology
    formatted   \* prose run: what format_etymology returned (wrapped)

scrubVars == <<raw, scrubOut>>
tplVars   == <<tname, tparts, fragment, around, resolved>>
pipeVars  == <<page, wikitext, etymology, prev, passes, flattens, result, pc>>
fileVars  == <<files, returned, written>>
proseVars == <<prose, proseText, formatted>>
vars      == <<scrubVars, tplVars, pipeVars, fileVars, proseVars>>

(***************************************************************************)
(* Characters and strings                                                  *)
(***************************************************************************)
Chars(str) == [i \in 1..Len(str) |-> SubSeq(str, i, i)]

\* Python's None and a present value; both are tuples so they compare.
None    == <<>>
Some(v) == <<v>>

Whitespace == {" ", "\n", "\t"}
IsSpace(c) == c \in Whitespace

LowerLetters == Chars("abcdefghijklmnopqrstuvwxyzéáχάοσ")
UpperLetters == Chars("ABCDEFGHIJKLMNOPQRSTUVWXYZÉÁΧΆΟΣ")
Digits       == {"0", "1", "2", "3", "4", "5", "6", "7", "8", "9"}

Range(f) == {f[k] : k \in DOMAIN f}

\* str.upper() / str.lower() / re.IGNORECASE folding on one character
\* (the final sigma has no capital of its own)
UpperMap == [c \in Range(LowerLetters) |->
                UpperLetters[CHOOSE k \in DOMAIN LowerLetters : LowerLetters[k] = c]]
            @@ ("ς" :> "Σ")
LowerMap == [c \in Range(UpperLetters) |->
                LowerLetters[CHOOSE k \in DOMAIN UpperLetters : UpperLetters[k] = c]]
Upper(c) == IF c \in DOMAIN UpperMap THEN UpperMap[c] ELSE c
Lower(c) == IF c \in DOMAIN LowerMap THEN LowerMap[c] ELSE c

\* \w of the re module: letters, digits, underscore
WordChars == Range(LowerLetters) \cup Range(UpperLetters) \cup Digits \cup {"_", "ς"}
IsWord(c) == c \in WordChars

\* the literal lit occurs in s at index i
MatchLit(s, i, lit) ==
    /\ i >= 1
    /\ i + Len(lit) - 1 <= Len(s)
    /\ \A k \in 1..Len(lit) : s[i + k - 1] = lit[k]

\* the same under re.IGNORECASE
MatchLitI(s, i, lit) ==
    /\ i >= 1
    /\ i + Len(lit) - 1 <= Len(s)
    /\ \A k \in 1..Len(lit) : Lower(s[i + k - 1]) = Lower(lit[k])

\* the least and the greatest member of a set of indices, 0 for the empty set
First(S) == IF S = {} THEN 0 ELSE CHOOSE m \in S : \A k \in S : m <= k
Last(S)  == IF S = {} THEN 0 ELSE CHOOSE m \in S : \A k \in S : m >= k

\* the first index at or after i whose character is not in set; the index
\* after the end when there is none
SkipSet(s, i, set) ==
    LET rest == {k \in i..Len(s) : s[k] \notin set}
    IN  IF rest # {} THEN First(rest)
        ELSE IF i > Len(s) THEN i ELSE Len(s) + 1

\* \s* from index i: the first index at or after i that holds no whitespace
SkipSpaces(s, i) == SkipSet(s, i, Whitespace)

\* the first index at or after i holding character c, or 0
IndexOf(s, i, c) == First({k \in i..Len(s) : s[k] = c})

\* the first index at or after i where lit occurs, or 0
FindLit(s, i, lit) == First({k \in i..Len(s) : MatchLit(s, k, lit)})

\* str.strip(chars): drop leading and trailing characters of the set
StripSet(s, set) ==
    LET keep == {k \in 1..Len(s) : s[k] \notin set}
    IN  IF keep = {} THEN <<>> ELSE SubSeq(s, First(keep), Last(keep))
Strip(s) == StripSet(s, Whitespace)

(***************************************************************************)
(* re.sub: end[i] is the index just after the leftmost-first match that    *)
(* starts at i (0 when the pattern does not match at i), repl[i] the text  *)
(* that replaces it.  Matches are taken left to right, non-overlapping;    *)
(* the text between two matches is copied.                                 *)
(***************************************************************************)
RECURSIVE ReSubFrom(_, _, _, _)
ReSubFrom(s, end, repl, i) ==
    LET m == First({k \in i..Len(s) : end[k] # 0})
    IN  IF m = 0 THEN SubSeq(s, i, Len(s))
        ELSE SubSeq(s, i, m - 1) \o repl[m] \o ReSubFrom(s, end, repl, end[m])

ReSub(s, end, repl) == ReSubFrom(s, end, repl, 1)

\* every match replaced by the same text
ReSubConst(s, end, text) == ReSub(s, end, [i \in 1..Len(s) |-> text])

(***************************************************************************)
(* Markup Scrubber: fetch_etymology_parse_api, lines 290-315               *)
(***************************************************************************)
\* '''?
QuoteEnd(s, i) ==
    IF MatchLit(s, i, Chars("''"))
    THEN IF MatchLit(s, i, Chars("'''")) THEN i + 3 ELSE i + 2
    ELSE 0

\* .*?</ref> from index k, where . does not match a line break
RefCloseFrom(s, k) ==
    LET m  == FindLit(s, k, Chars("</ref>"))
        nl == IndexOf(s, k, "\n")
    IN  IF m # 0 /\ (nl = 0 \/ nl > m) THEN m + 6 ELSE 0

\* <ref[^>]*>.*?</ref>
RefSpanEnd(s, i) ==
    IF MatchLit(s, i, Chars("<ref"))
    THEN LET j == IndexOf(s, i + 4, ">")
         IN  IF j = 0 THEN 0 ELSE RefCloseFrom(s, j + 1)
    ELSE 0

\* <ref[^>]*/>
RefSelfEnd(s, i) ==
    IF MatchLit(s, i, Chars("<ref"))
    THEN LET j == IndexOf(s, i + 4, ">")
         IN  IF j # 0 /\ j - 1 >= i + 4 /\ s[j - 1] = "/" THEN j + 1 ELSE 0
    ELSE 0

\* <[^>]+>
TagEnd(s, i) ==
    IF s[i] = "<"
    THEN LET j == IndexOf(s, i + 1, ">")
         IN  IF j # 0 /\ j >= i + 2 THEN j + 1 ELSE 0
    ELSE 0

\* \b at index p: between s[p-1] and s[p]
WordBoundary(s, p) ==
    LET before == p - 1 >= 1 /\ p - 1 <= Len(s) /\ IsWord(s[p - 1])
        after  == p >= 1 /\ p <= Len(s) /\ IsWord(s[p])
    IN  before # after

\* \b<lit>\b
WordLitEnd(s, i, lit) ==
    IF MatchLit(s, i, lit) /\ WordBoundary(s, i) /\ WordBoundary(s, i + Len(lit))
    THEN i + Len(lit)
    ELSE 0

\* Displaced native\s*\.?
DisplacedEnd(s, i) ==
    IF MatchLit(s, i, Chars("Displaced native"))
    THEN LET j == SkipSpaces(s, i + 16)
         IN  IF j <= Len(s) /\ s[j] = "." THEN j + 1 ELSE j
    ELSE 0

\* \s+
SpacesEnd(s, i) == IF IsSpace(s[i]) THEN SkipSpaces(s, i) ELSE 0

\* re.sub(r'\s+', ' ', text).strip()
CollapseWhitespace(s) ==
    Strip(ReSubConst(s, [i \in 1..Len(s) |-> SpacesEnd(s, i)], <<" ">>))

\* re.sub(r'^:\s*', '', text)
RemoveLeadingColon(s) ==
    IF Len(s) >= 1 /\ s[1] = ":"
    THEN SubSeq(s, SkipSpaces(s, 2), Len(s))
    ELSE s

\* \(\s*\)
EmptyParenEnd(s, i) ==
    IF s[i] = "("
    THEN LET j == SkipSpaces(s, i + 1)
         IN  IF j <= Len(s) /\ s[j] = ")" THEN j + 1 ELSE 0
    ELSE 0

\* ,\s*,
CommaPairEnd(s, i) ==
    IF s[i] = ","
    THEN LET j == SkipSpaces(s, i + 1)
         IN  IF j <= Len(s) /\ s[j] = "," THEN j + 1 ELSE 0
    ELSE 0

\* \s*[,;]\s*$
TrailingEnd(s, i) ==
    LET j == SkipSpaces(s, i)
    IN  IF j <= Len(s) /\ s[j] \in {",", ";"} /\ SkipSpaces(s, j + 1) = Len(s) + 1
        THEN Len(s) + 1
        ELSE 0
TrimTrailingSeparator(s) ==
    ReSubConst(s, [i \in 1..Len(s) |-> TrailingEnd(s, i)], <<>>)

\* etymology[0].upper() + etymology[1:]
Capitalize(s) == IF s # <<>> THEN <<Upper(s[1])>> \o Tail(s) ELSE s

RemoveBoldItalic(s) == ReSubConst(s, [i \in 1..Len(s) |-> QuoteEnd(s, i)], <<>>)
RemoveRefSpans(s)   == ReSubConst(s, [i \in 1..Len(s) |-> RefSpanEnd(s, i)], <<>>)
RemoveRefSelf(s)    == ReSubConst(s, [i \in 1..Len(s) |-> RefSelfEnd(s, i)], <<>>)
RemoveTags(s)       == ReSubConst(s, [i \in 1..Len(s) |-> TagEnd(s, i)], <<>>)
ReplaceWordLit(s, lit, text) ==
    ReSubConst(s, [i \in 1..Len(s) |-> WordLitEnd(s, i, lit)], text)
FixLanguageArtifacts(s) ==
    ReplaceWordLit(
        ReplaceWordLit(
            ReplaceWordLit(s, Chars("la-lat"), Chars("Late Latin")),
            Chars("la-med"), Chars("Medieval Latin")),
        Chars("la-new"), Chars("New Latin"))
RemoveDisplaced(s)   == ReSubConst(s, [i \in 1..Len(s) |-> DisplacedEnd(s, i)], <<>>)
RemoveEmptyParens(s) == ReSubConst(s, [i \in 1..Len(s) |-> EmptyParenEnd(s, i)], <<>>)
\* mutant: the doubled separator is left as it is
CollapseCommasSkipped(s) == s
CollapseCommas(s)    == ReSubConst(s, [i \in 1..Len(s) |-> CommaPairEnd(s, i)], <<",">>)

\* the scrubber's passes, in the order of the code
Scrub(s) ==
    LET s1  == RemoveBoldItalic(s)
        s2  == RemoveRefSelf(RemoveRefSpans(s1))
        s3  == RemoveTags(s2)
        s4  == FixLanguageArtifacts(s3)
        s5  == RemoveDisplaced(s4)
        s6  == CollapseWhitespace(s5)
        s7  == RemoveLeadingColon(s6)
        s8  == RemoveEmptyParens(s7)
        s9  == CollapseCommas(s8)
        s10 == CollapseWhitespace(s9)
        s11 == TrimTrailingSeparator(s10)
    IN  Capitalize(s11)

(***************************************************************************)
(* Template Parser and Template Interpreter: parse_wiki_template           *)
(***************************************************************************)
\* str.split(sep) on a one-character separator
RECURSIVE Split(_, _)
Split(s, sep) ==
    LET j == IndexOf(s, 1, sep)
    IN  IF j = 0 THEN <<s>>
        ELSE <<SubSeq(s, 1, j - 1)>> \o Split(SubSeq(s, j + 1, Len(s)), sep)

\* a dict as its items in insertion order: d[key] = value
DictSet(d, key, value) ==
    IF \E k \in DOMAIN d : d[k][1] = key
    THEN [k \in DOMAIN d |-> IF d[k][1] = key THEN <<key, value>> ELSE d[k]]
    ELSE Append(d, <<key, value>>)

\* dict.get(key, default)
DictGet(d, key, default) ==
    IF \E k \in DOMAIN d : d[k][1] = key
    THEN d[CHOOSE k \in DOMAIN d : d[k][1] = key][2]
    ELSE default

\* Language code mappings (French names for French Wiktionary)
lang_names ==
    << <<Chars("en"), Chars("anglais")>>, <<Chars("la"), Chars("latin")>>,
       <<Chars("la-new"), Chars("latin moderne")>>,
       <<Chars("la-med"), Chars("latin médiéval")>>,
       <<Chars("grc"), Chars("grec ancien")>>, <<Chars("grc-koi"), Chars("grec koinè")>>,
       <<Chars("el"), Chars("grec")>>,
       <<Chars("fr"), Chars("français")>>, <<Chars("fro"), Chars("ancien français")>>,
       <<Chars("frm"), Chars("moyen français")>>,
       <<Chars("ang"), Chars("vieil anglais")>>, <<Chars("enm"), Chars("moyen anglais")>>,
       <<Chars("de"), Chars("allemand")>>, <<Chars("goh"), Chars("vieux haut allemand")>>,
       <<Chars("gmh"), Chars("moyen haut allemand")>>,
       <<Chars("non"), Chars("vieux norrois")>>, <<Chars("gem-pro"), Chars("proto-germanique")>>,
       <<Chars("ine-pro"), Chars("proto-indo-européen")>>,
       <<Chars("it"), Chars("italien")>>, <<Chars("es"), Chars("espagnol")>>,
       <<Chars("pt"), Chars("portugais")>>,
       <<Chars("ar"), Chars("arabe")>>, <<Chars("he"), Chars("hébreu")>>,
       <<Chars("sa"), Chars("sanskrit")>>, <<Chars("fa"), Chars("persan")>>,
       <<Chars("nl"), Chars("néerlandais")>>, <<Chars("dum"), Chars("moyen néerlandais")>> >>

\* lang_names.get(code, code)
LangName(code) == DictGet(lang_names, code, code)

\* the loop over parts[1:] that fills named_params
RECURSIVE named_params(_, _)
named_params(parts, n) ==
    IF n <= 1 THEN <<>>
    ELSE LET part == parts[n]
             eq   == IndexOf(part, 1, "=")
             d    == named_params(parts, n - 1)
         IN  IF eq # 0
             THEN DictSet(d, Strip(SubSeq(part, 1, eq - 1)),
                             Strip(SubSeq(part, eq + 1, Len(part))))
             ELSE d

\* the same loop, filling positional_params
RECURSIVE positional_params(_, _)
positional_params(parts, n) ==
    IF n <= 1 THEN <<>>
    ELSE LET part == parts[n]
             p    == positional_params(parts, n - 1)
         IN  IF IndexOf(part, 1, "=") = 0 THEN Append(p, Strip(part)) ELSE p

\* f'*{lang}* *{word}*'
LangWord(lang, word) == <<"*">> \o lang \o Chars("* *") \o word \o <<"*">>
\* f'*{lang}*'
LangOnly(lang) == <<"*">> \o lang \o <<"*">>

\* mutant: the transliteration is never appended
EtylWithoutTr(named, pos) ==
    IF pos # <<>>
    THEN LET lang == LangName(pos[1])
             mot  == DictGet(named, Chars("mot"), <<>>)
             word == IF mot = <<>> /\ Len(pos) >= 3 THEN pos[3] ELSE mot
         IN  IF word # <<>> THEN LangWord(lang, word) ELSE LangOnly(lang)
    ELSE <<>>

\* template_name == 'étyl'
Etyl(named, pos) ==
    IF pos # <<>>
    THEN LET lang == LangName(pos[1])
             mot  == DictGet(named, Chars("mot"), <<>>)
             word == IF mot = <<>> /\ Len(pos) >= 3 THEN pos[3] ELSE mot
             tr   == DictGet(named, Chars("tr"), <<>>)
         IN  IF word # <<>>
             THEN IF tr # <<>>
                  THEN LangWord(lang, word) \o Chars(" (") \o tr \o <<")">>
                  ELSE LangWord(lang, word)
             ELSE LangOnly(lang)
    ELSE <<>>

\* template_name == 'polytonique'
Polytonique(pos) ==
    IF pos # <<>>
    THEN LET word    == StripSet(pos[1], {"[", "]"})
             tr      == IF Len(pos) >= 2 THEN pos[2] ELSE <<>>
             meaning == IF Len(pos) >= 3 THEN pos[3] ELSE <<>>
         IN  IF meaning # <<>>
             THEN <<"*">> \o word \o Chars("* (") \o tr \o Chars(", « ")
                      \o meaning \o Chars(" »)")
             ELSE IF tr # <<>>
             THEN <<"*">> \o word \o Chars("* (") \o tr \o <<")">>
             ELSE <<"*">> \o word \o <<"*">>
    ELSE <<>>

\* template_name in ('bor', 'borrowed') and in ('der', 'derived')
BorDer(pos) ==
    IF Len(pos) >= 3 THEN LangWord(LangName(pos[2]), pos[3])
    ELSE IF Len(pos) >= 2 THEN LangOnly(LangName(pos[2]))
    ELSE <<>>

\* template_name in ('inh', 'inherited')
Inh(pos) ==
    IF Len(pos) >= 3 THEN LangWord(LangName(pos[2]), pos[3]) ELSE <<>>

\* template_name in ('m', 'mention', 'l', 'link', 'lien')
Mention(pos) ==
    IF Len(pos) >= 2
    THEN LET gloss == IF Len(pos) >= 4 THEN pos[4] ELSE <<>>
         IN  IF gloss # <<>>
             THEN LangWord(LangName(pos[1]), pos[2]) \o Chars(" « ") \o gloss \o Chars(" »")
             ELSE LangWord(LangName(pos[1]), pos[2])
    ELSE <<>>

\* template_name in ('cog', 'cognate')
Cognate(pos) ==
    IF Len(pos) >= 2 THEN LangWord(LangName(pos[1]), pos[2]) ELSE <<>>

\* template_name == 'date' and template_name in ('R', 'réf'): skipped
\* mutant: the template's name is left in the text
SkippedKeepsName(name) == name
Skipped(name) == <<>>

\* the final return '' of parse_wiki_template
\* mutant: an unknown template is replaced by its name
UnknownKeepsName(name) == name
UnknownTemplate(name) == <<>>

\* the if/elif chain over template_name
Dispatch(name, named, pos) ==
    IF name = Chars("étyl") THEN Etyl(named, pos)
    ELSE IF name = Chars("polytonique") THEN Polytonique(pos)
    ELSE IF name = Chars("date") THEN Skipped(name)
    ELSE IF name \in {Chars("R"), Chars("réf")} THEN Skipped(name)
    ELSE IF name \in {Chars("bor"), Chars("borrowed")} THEN BorDer(pos)
    ELSE IF name \in {Chars("der"), Chars("derived")} THEN BorDer(pos)
    ELSE IF name \in {Chars("inh"), Chars("inherited")} THEN Inh(pos)
    ELSE IF name \in {Chars("m"), Chars("mention"), Chars("l"), Chars("link"),
                      Chars("lien")} THEN Mention(pos)
    ELSE IF name \in {Chars("cog"), Chars("cognate")} THEN Cognate(pos)
    ELSE UnknownTemplate(name)

parse_wiki_template(template) ==
    LET parts == Split(StripSet(template, {"{", "}"}), "|")
    IN  Dispatch(Strip(parts[1]),
                 named_params(parts, Len(parts)),
                 positional_params(parts, Len(parts)))

(***************************************************************************)
(* Section Extractor: fetch_etymology_parse_api, lines 267-276             *)
(***************************************************************************)
TemplatedHeading == Chars("{{S|étymologie}}")
PlainHeading     == Chars("Étymologie")

\* ===\s*<title>\s*===\n under re.IGNORECASE, from index i: the index where
\* the captured group starts, or 0
HeadingEnd(s, i, title) ==
    IF MatchLitI(s, i, Chars("==="))
    THEN LET j == SkipSpaces(s, i + 3)
         IN  IF MatchLitI(s, j, title)
             THEN LET k == SkipSpaces(s, j + Len(title))
                  IN  IF MatchLitI(s, k, Chars("===\n")) THEN k + 4 ELSE 0
             ELSE 0
    ELSE 0

\* (.*?)(?=\n===) under re.DOTALL, the group starting at index c: the index
\* just after the group, or 0
GroupEnd(s, c) == FindLit(s, c, Chars("\n==="))

\* re.search of the whole pattern: the group captured by the leftmost match,
\* wrapped, or None
Search(s, title) ==
    LET starts == {i \in 1..Len(s) :
                      HeadingEnd(s, i, title) # 0
                          /\ GroupEnd(s, HeadingEnd(s, i, title)) # 0}
    IN  IF starts = {} THEN None
        ELSE LET c == HeadingEnd(s, First(starts), title)
             IN  Some(SubSeq(s, c, GroupEnd(s, c) - 1))

\* mutant: without a heading the whole page is taken as the section
etym_match_or_page(text) ==
    LET m == Search(text, TemplatedHeading)
    IN  IF m # None THEN m
        ELSE IF Search(text, PlainHeading) # None THEN Search(text, PlainHeading)
        ELSE Some(text)

\* etym_match: the templated heading first, then the alternative format
etym_match(text) ==
    LET m == Search(text, TemplatedHeading)
    IN  IF m # None THEN m ELSE Search(text, PlainHeading)

(***************************************************************************)
(* Fixpoint Resolver: fetch_etymology_parse_api, lines 279-286             *)
(***************************************************************************)
\* the first index at or after i holding a brace, or 0
NextBrace(s, i) == First({k \in i..Len(s) : s[k] \in {"{", "}"}})

\* \{\{([^{}]*)\}\}
TemplateEnd(s, i) ==
    IF MatchLit(s, i, Chars("{{"))
    THEN LET j == NextBrace(s, i + 2)
         IN  IF j # 0 /\ MatchLit(s, j, Chars("}}")) THEN j + 2 ELSE 0
    ELSE 0

\* replace_template
replace_template(s, i) == parse_wiki_template(SubSeq(s, i, TemplateEnd(s, i) - 1))

\* mutant: a pass replaces the first template only (count=1)
ResolveFirstOnly(s) ==
    LET m == First({k \in 1..Len(s) : TemplateEnd(s, k) # 0})
    IN  IF m = 0 THEN s
        ELSE SubSeq(s, 1, m - 1) \o replace_template(s, m)
                 \o SubSeq(s, TemplateEnd(s, m), Len(s))

\* one pass of the loop body: re.sub(r'\{\{([^{}]*)\}\}', replace_template, etymology)
ResolvePass(s) ==
    ReSub(s, [i \in 1..Len(s) |-> TemplateEnd(s, i)],
             [i \in 1..Len(s) |-> replace_template(s, i)])

\* the whole loop: prev = None; while prev != etymology: ...
RECURSIVE ResolveLoop(_, _)
ResolveLoop(before, text) ==
    IF before = Some(text) THEN text
    ELSE ResolveLoop(Some(text), ResolvePass(text))

(***************************************************************************)
(* Link Flattener: fetch_etymology_parse_api, line 289                     *)
(***************************************************************************)
\* the first index at or after i holding '|' or ']', or 0
NextPipeOrClose(s, i) == First({k \in i..Len(s) : s[k] \in {"|", "]"}})

\* ([^|\]]+\|)? after the [[ at index i: the index of the '|' that ends
\* group 1, or 0 when group 1 cannot take part
LinkPipe(s, i) ==
    LET p == NextPipeOrClose(s, i + 2)
    IN  IF p # 0 /\ p >= i + 3 /\ s[p] = "|" THEN p ELSE 0

\* the index of the first ']' after the [[ at index i, when ]] stands there; else 0
LinkClose(s, i) ==
    LET q == IndexOf(s, i + 2, "]")
    IN  IF q # 0 /\ MatchLit(s, q, Chars("]]")) THEN q ELSE 0

\* the index where group 2 starts in the match at index i, or 0 for no match
LinkGroup2(s, i) ==
    IF MatchLit(s, i, Chars("[["))
    THEN LET p == LinkPipe(s, i)
             q == LinkClose(s, i)
         IN  IF q = 0 THEN 0
             ELSE IF p # 0 /\ q >= p + 2 THEN p + 1
             ELSE IF q >= i + 3 THEN i + 2
             ELSE 0
    ELSE 0

\* \[\[([^|\]]+\|)?([^\]]+)\]\]
LinkEnd(s, i) == IF LinkGroup2(s, i) # 0 THEN LinkClose(s, i) + 2 ELSE 0

\* mutant: the link is replaced by group 1, the target, when there is one
FlattenToTarget(s) ==
    ReSub(s, [i \in 1..Len(s) |-> LinkEnd(s, i)],
             [i \in 1..Len(s) |-> SubSeq(s, i + 2, LinkGroup2(s, i) - 1)
                                      \o (IF LinkGroup2(s, i) = i + 2
                                          THEN SubSeq(s, i + 2, LinkClose(s, i) - 1)
                                          ELSE <<>>)])

\* re.sub(r'\[\[([^|\]]+\|)?([^\]]+)\]\]', r'\2', etymology)
Flatten(s) ==
    ReSub(s, [i \in 1..Len(s) |-> LinkEnd(s, i)],
             [i \in 1..Len(s) |-> SubSeq(s, LinkGroup2(s, i), LinkClose(s, i) - 1)])

(***************************************************************************)
(* Quality gate: fetch_etymology_parse_api, lines 317-320                  *)
(***************************************************************************)
MinLength == 10

\* mutant: len(etymology) >= 10
QualityGateAtLeast(text) ==
    IF text # <<>> /\ Len(text) >= MinLength THEN Some(text) ELSE None

QualityGate(text) ==
    IF text # <<>> /\ Len(text) > MinLength THEN Some(text) ELSE None

\* the whole of fetch_etymology_parse_api on a fetched page
Pipeline(text) ==
    LET m == etym_match(text)
    IN  IF m # None
        THEN QualityGate(Scrub(Flatten(ResolveLoop(None, Strip(m[1])))))
        ELSE None

(***************************************************************************)
(* Persistence layer: remove_origin_from_body, process_word_file,          *)
(* process_single_word, process_all                                        *)
(***************************************************************************)
\* (?=\n\n|\n\*\*|$) at index e
OriginStop(s, e) ==
    \/ MatchLit(s, e, Chars("\n\n"))
    \/ MatchLit(s, e, Chars("\n**"))
    \/ e = Len(s) + 1
    \/ (e = Len(s) /\ s[e] = "\n")

\* .*? under re.DOTALL up to the lookahead, from index e
OriginStopFrom(s, e) == First({k \in e..Len(s) + 1 : OriginStop(s, k)})

\* \n* from index i
SkipNewlines(s, i) == SkipSet(s, i, {"\n"})

\* \n*\*\*Origin:\*\*.*?(?=\n\n|\n\*\*|$)
OriginEnd(s, i) ==
    LET j == SkipNewlines(s, i)
    IN  IF MatchLit(s, j, Chars("**Origin:**"))
        THEN OriginStopFrom(s, j + 11)
        ELSE 0

remove_origin_from_body(body) ==
    Strip(ReSubConst(body, [i \in 1..Len(body) |-> OriginEnd(body, i)], <<>>))

\* front_matter.get(key): a missing key and an empty value are both falsy
Truthy(v) == v # ""

\* mutant: force also overrides the etymology_alt check
process_word_file_forced(file, force, fetched) ==
    IF ~Truthy(file.word)
    THEN [file |-> file, ret |-> FALSE, wrote |-> FALSE]
    ELSE IF ~force /\ (Truthy(file.etymology_alt) \/ Truthy(file.etymology))
    THEN [file |-> file, ret |-> FALSE, wrote |-> FALSE]
    ELSE IF fetched = None
    THEN [file |-> file, ret |-> FALSE, wrote |-> FALSE]
    ELSE [file  |-> [file EXCEPT !.etymology = fetched[1],
                                 !.body = remove_origin_from_body(file.body)],
          ret   |-> TRUE,
          wrote |-> TRUE]

\* process_word_file on the parsed file, with what fetch_etymology returns:
\* the file afterwards, the returned value, and whether write_text ran
process_word_file(file, force, fetched) ==
    IF ~Truthy(file.word)
    THEN [file |-> file, ret |-> FALSE, wrote |-> FALSE]
    ELSE IF Truthy(file.etymology_alt)
    THEN [file |-> file, ret |-> FALSE, wrote |-> FALSE]
    ELSE IF ~force /\ Truthy(file.etymology)
    THEN [file |-> file, ret |-> FALSE, wrote |-> FALSE]
    ELSE IF fetched = None
    THEN [file |-> file, ret |-> FALSE, wrote |-> FALSE]
    ELSE [file  |-> [file EXCEPT !.etymology = fetched[1],
                                 !.body = remove_origin_from_body(file.body)],
          ret   |-> TRUE,
          wrote |-> TRUE]

\* word.lower()
LowerStr(w) == [k \in 1..Len(w) |-> Lower(w[k])]


(***************************************************************************)
(* Prose Formatter: clean_html and format_etymology, lines 52-85           *)
(***************************************************************************)
\* str.replace(old, new) for a non-empty old
ReplaceLit(s, old, new) ==
    ReSubConst(s, [i \in 1..Len(s) |-> IF MatchLit(s, i, old) THEN i + Len(old) ELSE 0],
               new)

clean_html(text) ==
    LET t0 == RemoveTags(text)
        t1 == ReplaceLit(t0, Chars("&amp;"), <<"&">>)
        t2 == ReplaceLit(t1, Chars("&lt;"), <<"<">>)
        t3 == ReplaceLit(t2, Chars("&gt;"), <<">">>)
        t4 == ReplaceLit(t3, Chars("&quot;"), <<"\"">>)
        t5 == ReplaceLit(t4, Chars("&#39;"), <<"'">>)
    IN  CollapseWhitespace(t5)

\* the list the loop of format_etymology goes through, in its order
languages ==
    << Chars("Latin"), Chars("Greek"), Chars("French"), Chars("Old English"),
       Chars("Middle English"), Chars("Old French"), Chars("Proto-Germanic"),
       Chars("German"), Chars("Italian"), Chars("Spanish"), Chars("Sanskrit"),
       Chars("Arabic"), Chars("Hebrew"), Chars("Old Norse"), Chars("Dutch") >>

\* [a-zA-Z]
AsciiLetters ==
    Range(Chars("abcdefghijklmnopqrstuvwxyzABCDEFGHIJKLMNOPQRSTUVWXYZ"))

\* \b(lang)\s+([a-zA-Z]+)\b from index i: the indexes where group 2 starts
\* and where the match ends, or <<0, 0>>.  The greedy letter run can only end
\* at a word boundary at its full length: inside it both neighbours are
\* letters.
LangWordMatch(s, i, lang) ==
    IF WordBoundary(s, i) /\ MatchLit(s, i, lang)
           /\ i + Len(lang) <= Len(s) /\ IsSpace(s[i + Len(lang)])
    THEN LET w == SkipSpaces(s, i + Len(lang))
             e == SkipSet(s, w, AsciiLetters)
         IN  IF e > w /\ WordBoundary(s, e) THEN <<w, e>> ELSE <<0, 0>>
    ELSE <<0, 0>>

\* re.sub(rf'\b({lang})\s+([a-zA-Z]+)\b', rf'*\1* *\2*', text)
Italicize(s, lang) ==
    ReSub(s, [i \in 1..Len(s) |-> LangWordMatch(s, i, lang)[2]],
             [i \in 1..Len(s) |->
                 LET m == LangWordMatch(s, i, lang)
                 IN  <<"*">> \o lang \o Chars("* *") \o SubSeq(s, m[1], m[2] - 1)
                         \o <<"*">>])

\* the loop over languages, from the n-th name on (each pass is computed
\* before the next one starts: the comparison fixes the evaluation order)
RECURSIVE ItalicizeFrom(_, _)
ItalicizeFrom(s, n) ==
    IF n > Len(languages) THEN s
    ELSE LET t == Italicize(s, languages[n])
         IN  IF t = s THEN ItalicizeFrom(s, n + 1) ELSE ItalicizeFrom(t, n + 1)

format_etymology(raw_etymology) ==
    LET text == clean_html(raw_etymology)
    IN  IF text = <<>> THEN text ELSE ItalicizeFrom(text, 1)

(***************************************************************************)
(* Bounds and inputs                                                       *)
(***************************************************************************)
MaxScrubLen == 3    \* longest generated scrubber input
MaxParams   == 3    \* most parts after the template name
MaxFrags    == 3    \* most fragments in a generated section body

\* all sequences over set of length at most n
SeqsUpTo(set, n) == UNION {[1..k -> set] : k \in 0..n}

RECURSIVE Concat(_)
Concat(ss) == IF ss = <<>> THEN <<>> ELSE Head(ss) \o Concat(Tail(ss))

ScrubAlphabet == {",", ";", " ", "(", ")", ":", "c", "'"}
ScrubExamples ==
    { Chars("  , ,  coucou ()  ,"), Chars("Coucou"), Chars(", coucou"),
      Chars("'''chaos''' <ref name=a>x</ref>, du la-lat ''chaos'' ( ) ;") }
\* texts with reference tags, put together from a few pieces
RefPieces ==
    { Chars("<ref>"), Chars("</ref>"), Chars("<ref name=a/>"), Chars("<ref>x</ref>"),
      Chars("b"), Chars("c\nd") }
RefInputs == {Concat(ps) : ps \in SeqsUpTo(RefPieces, MaxScrubLen)}
ScrubInputs == SeqsUpTo(ScrubAlphabet, MaxScrubLen) \cup ScrubExamples \cup RefInputs

TemplateNames ==
    { Chars("étyl"), Chars("polytonique"), Chars("date"), Chars("R"), Chars("réf"),
      Chars("bor"), Chars("borrowed"), Chars("der"), Chars("derived"),
      Chars("inh"), Chars("inherited"), Chars("m"), Chars("cog"),
      Chars("calque"), Chars("Étyl"), <<>> }
ParamParts ==
    { Chars("la"), Chars("xx"), <<>>, Chars("mot=chaos"), Chars("tr=kháos"),
      Chars("mot="), Chars("=") }
ParamExamples ==
    { <<Chars("la"), Chars("fr"), Chars("mot=chaos")>>,
      <<Chars("grc"), Chars("fr"), Chars("mot=χάος"), Chars("tr=kháos")>>,
      <<Chars("la"), Chars("fr"), Chars("paradoxon"), Chars(" tr = x ")>>,
      <<Chars("lang=fr")>>,
      <<Chars("la"), Chars("fr"), Chars("mot=a"), Chars("mot=b")>> }
ParamLists == SeqsUpTo(ParamParts, MaxParams) \cup ParamExamples
Arounds ==
    { <<Chars("X"), Chars("Y")>>, <<<<>>, <<>>>>, <<Chars("Du { "), Chars(" } [[a]]")>> }

\* {{name|part|...}}
TemplateText(name, parts) ==
    Chars("{{") \o name \o Concat([k \in 1..Len(parts) |-> <<"|">> \o parts[k]])
        \o Chars("}}")

PagePrefix == Chars("== {{langue|fr}} ==\n")
Heads ==
    << Chars("=== {{S|étymologie}} ===\n"),
       Chars("=== Étymologie ===\n"),
       Chars("==={{s|étymologie}}===\n"),
       Chars("===  étymologie ===\n"),
       <<>>,
       Chars("== Étymologie ==\n"),
       Chars("=== {{S|nom|fr}} ===\n"),
       Chars("=== Étymologie === \n") >>
Tails ==
    << Chars("\n=== {{S|nom|fr}} ===\n"),
       Chars("\n==== Attestations ====\n"),
       <<>>,
       Chars("\n") >>
Frags ==
    << Chars("{{étyl|la|fr|mot="),
       Chars("}}"),
       Chars("{{date|lang=fr}}"),
       Chars("[[chaos|Chaos]]"),
       Chars("[[chaos]]"),
       Chars("chaos"),
       Chars(" du "),
       Chars("{") >>
SampleBodies == { <<1, 6, 2>>, <<7, 6, 3>>, <<6>>, <<>> }

Pages ==
    {[head |-> 1, body |-> b, tail |-> 1] : b \in SeqsUpTo(DOMAIN Frags, MaxFrags)}
    \cup {[head |-> h, body |-> b, tail |-> t] :
              h \in DOMAIN Heads, b \in SampleBodies, t \in DOMAIN Tails}

BodyText(pg) == Concat([k \in 1..Len(pg.body) |-> Frags[pg.body[k]]])
Render(pg)   == PagePrefix \o Heads[pg.head] \o BodyText(pg) \o Tails[pg.tail]

FilePaths == {Chars("chaos"), Chars("cosmos")}
CliWords  == {Chars("Chaos"), Chars("cosmos"), Chars("logos")}
FileBodies ==
    { Chars("Definition."),
      Chars("Definition.\n\n**Origin:** Greek khaos\n\n**See also:** cosmos\n") }
FileRecords ==
    [word : {"", "chaos"}, etymology : {"", "old etymology"},
     etymology_alt : {"", "manual etymology"}, body : FileBodies]
FetchResults == {None, Some("fetched etymology"), Some("other etymology")}

\* prose handed to format_etymology: prefix, language name, word, suffix
ProsePrefixes == << <<>>, Chars("From "), Chars("<i>From</i>   the&amp;") >>
ProseWords    == << Chars("mot"), Chars("chaos"), Chars("Khaos"), Chars("école"),
                    Chars("x1") >>
ProseSuffixes == << <<>>, Chars("."), Chars(", a <b>word</b>") >>
ProseInputs ==
    [pre : DOMAIN ProsePrefixes, lang : DOMAIN languages, word : DOMAIN ProseWords,
     post : DOMAIN ProseSuffixes]
RenderProse(p) ==
    ProsePrefixes[p.pre] \o (IF p.pre = 3 THEN <<" ">> ELSE <<>>)
        \o languages[p.lang] \o <<" ">> \o ProseWords[p.word] \o ProseSuffixes[p.post]

(***************************************************************************)
(* Scrubber runs                                                           *)
(***************************************************************************)
ScrubIdle == raw = <<>> /\ scrubOut = <<>>
TplIdle   == tname = <<>> /\ tparts = <<>> /\ fragment = None /\ around = <<>>
                 /\ resolved = None
PipeIdle  == page = <<>> /\ wikitext = <<>> /\ etymology = <<>> /\ prev = None
                 /\ passes = 0 /\ flattens = 0 /\ result = None /\ pc = "idle"
FileIdle  == files = <<>> /\ returned = <<>> /\ written = {}
ProseIdle == prose = <<>> /\ proseText = <<>> /\ formatted = None

InitScrub ==
    /\ raw \in ScrubInputs
    /\ scrubOut = <<>>
    /\ TplIdle /\ PipeIdle /\ FileIdle /\ ProseIdle

\* scrub the input, then scrub the output again
ScrubStep ==
    /\ Len(scrubOut) < 2
    /\ scrubOut' = Append(scrubOut,
                          Scrub(IF scrubOut = <<>> THEN raw ELSE scrubOut[Len(scrubOut)]))
    /\ UNCHANGED <<raw, tplVars, pipeVars, fileVars, proseVars>>

NextScrub == ScrubStep
SpecScrub == InitScrub /\ [][NextScrub]_vars

(***************************************************************************)
(* Template runs                                                           *)
(***************************************************************************)
InitTemplate ==
    /\ tname \in TemplateNames
    /\ tparts \in ParamLists
    /\ around \in Arounds
    /\ fragment = None
    /\ resolved = None
    /\ ScrubIdle /\ PipeIdle /\ FileIdle /\ ProseIdle

ParseTemplate ==
    /\ fragment = None
    /\ fragment' = Some(parse_wiki_template(TemplateText(tname, tparts)))
    /\ UNCHANGED <<tname, tparts, around, resolved, scrubVars, pipeVars, fileVars, proseVars>>

ResolveAround ==
    /\ fragment # None
    /\ resolved = None
    /\ resolved' = Some(ResolveLoop(None,
                        around[1] \o TemplateText(tname, tparts) \o around[2]))
    /\ UNCHANGED <<tname, tparts, around, fragment, scrubVars, pipeVars, fileVars, proseVars>>

NextTemplate == ParseTemplate \/ ResolveAround
SpecTemplate == InitTemplate /\ [][NextTemplate]_vars

(***************************************************************************)
(* Pipeline runs: fetch_etymology_parse_api, step by step                  *)
(***************************************************************************)
Init ==
    /\ page \in Pages
    /\ wikitext = Render(page)
    /\ etymology = <<>>
    /\ prev = None
    /\ passes = 0
    /\ flattens = 0
    /\ result = None
    /\ pc = "search"
    /\ ScrubIdle /\ TplIdle /\ FileIdle /\ ProseIdle

\* lines 267-276: find the section; without one the function returns None
FindSection ==
    /\ pc = "search"
    /\ LET m == etym_match(wikitext)
       IN  IF m # None
           THEN /\ etymology' = Strip(m[1])
                /\ pc' = "resolve"
                /\ UNCHANGED result
           ELSE /\ pc' = "done"
                /\ result' = None
                /\ UNCHANGED etymology
    /\ UNCHANGED <<page, wikitext, prev, passes, flattens, scrubVars, tplVars, fileVars, proseVars>>

\* lines 284-286: one iteration of while prev != etymology
ResolveStep ==
    /\ pc = "resolve"
    /\ prev # Some(etymology)
    /\ prev' = Some(etymology)
    /\ etymology' = ResolvePass(etymology)
    /\ passes' = passes + 1
    /\ UNCHANGED <<page, wikitext, flattens, result, pc, scrubVars, tplVars, fileVars, proseVars>>

\* line 289, reached when the loop condition fails
FlattenStep ==
    /\ pc = "resolve"
    /\ prev = Some(etymology)
    /\ etymology' = Flatten(etymology)
    /\ flattens' = flattens + 1
    /\ pc' = "scrub"
    /\ UNCHANGED <<page, wikitext, prev, passes, result, scrubVars, tplVars, fileVars, proseVars>>

\* lines 290-315
ScrubText ==
    /\ pc = "scrub"
    /\ etymology' = Scrub(etymology)
    /\ pc' = "gate"
    /\ UNCHANGED <<page, wikitext, prev, passes, flattens, result, scrubVars, tplVars,
                   fileVars, proseVars>>

\* lines 317-320
Gate ==
    /\ pc = "gate"
    /\ result' = QualityGate(etymology)
    /\ pc' = "done"
    /\ UNCHANGED <<page, wikitext, etymology, prev, passes, flattens, scrubVars, tplVars,
                   fileVars, proseVars>>

Next == FindSection \/ ResolveStep \/ FlattenStep \/ ScrubText \/ Gate
Spec == Init /\ [][Next]_vars

(***************************************************************************)
(* Persistence runs                                                        *)
(***************************************************************************)
InitFiles ==
    /\ files \in [FilePaths -> FileRecords]
    /\ returned = [p \in FilePaths |-> None]
    /\ written = {}
    /\ ScrubIdle /\ TplIdle /\ PipeIdle /\ ProseIdle

\* the effect of process_word_file on the path p
Processed(p, force, fetched) == process_word_file(files[p], force, fetched)

ProcessWordFile(p, force, fetched) ==
    LET r == Processed(p, force, fetched)
    IN  /\ files' = [files EXCEPT ![p] = r.file]
        /\ returned' = [returned EXCEPT ![p] = Some(r.ret)]
        /\ written' = IF r.wrote THEN written \cup {p} ELSE written
        /\ UNCHANGED <<scrubVars, tplVars, pipeVars, proseVars>>

\* process_single_word: the entry of the lower-cased word, always forced
ProcessSingleWord(word, fetched) ==
    LET p == LowerStr(word)
    IN  IF p \in FilePaths
        THEN ProcessWordFile(p, TRUE, fetched)
        ELSE UNCHANGED vars

\* process_all: process_word_file on every entry, each with its own fetch
ProcessAll(force, fetch) ==
    /\ files' = [p \in FilePaths |-> Processed(p, force, fetch[p]).file]
    /\ returned' = [p \in FilePaths |-> Some(Processed(p, force, fetch[p]).ret)]
    /\ written' = written \cup {p \in FilePaths : Processed(p, force, fetch[p]).wrote}
    /\ UNCHANGED <<scrubVars, tplVars, pipeVars, proseVars>>

NextFiles ==
    \/ \E p \in FilePaths, force \in BOOLEAN, fetched \in FetchResults :
           ProcessWordFile(p, force, fetched)
    \/ \E word \in CliWords, fetched \in FetchResults :
           ProcessSingleWord(word, fetched)
    \/ \E force \in BOOLEAN, fetch \in [FilePaths -> FetchResults] :
           ProcessAll(force, fetch)
SpecFiles == InitFiles /\ [][NextFiles]_vars

(***************************************************************************)
(* Prose Formatter runs                                                    *)
(***************************************************************************)
InitProse ==
    /\ prose \in ProseInputs
    /\ proseText = RenderProse(prose)
    /\ formatted = None
    /\ ScrubIdle /\ TplIdle /\ PipeIdle /\ FileIdle

FormatEtymology ==
    /\ formatted = None
    /\ formatted' = Some(format_etymology(proseText))
    /\ UNCHANGED <<prose, proseText, scrubVars, tplVars, pipeVars, fileVars>>

NextProse == FormatEtymology
SpecProse == InitProse /\ [][NextProse]_vars



(***************************************************************************)
(* Claims about the Markup Scrubber (checked under SpecScrub)              *)
(***************************************************************************)
CoucouInput == Chars("  , ,  coucou ()  ,")

\* C1: scrubbing the scrubber's own output changes nothing:
\* scrub(scrub(s)) = scrub(s) for every input s.
C1_ScrubIdempotent ==
    Len(scrubOut) = 2 => scrubOut[2] = scrubOut[1]

\* C6 as stated: scrubbing "  , ,  coucou ()  ," yields "Coucou", and
\* scrubbing "Coucou" yields "Coucou".
C6_CoucouAsStated ==
    /\ (raw = CoucouInput /\ Len(scrubOut) >= 1) => scrubOut[1] = Chars("Coucou")
    /\ (raw = Chars("Coucou") /\ Len(scrubOut) >= 1) => scrubOut[1] = Chars("Coucou")

\* C6 as amended: scrubbing "  , ,  coucou ()  ," yields ", coucou" (the
\* doubled comma collapses to one comma, which stays in front; the first
\* character is not a letter, so capitalizing changes nothing),
\* re-scrubbing that result changes nothing, and scrubbing "Coucou" yields
\* "Coucou".
C6_CoucouAmended ==
    /\ (raw = CoucouInput /\ Len(scrubOut) >= 1) => scrubOut[1] = Chars(", coucou")
    /\ (raw = CoucouInput /\ Len(scrubOut) = 2) => scrubOut[2] = Chars(", coucou")
    /\ (raw = Chars("Coucou") /\ Len(scrubOut) >= 1) => scrubOut[1] = Chars("Coucou")

C6_Witness ==
    raw = CoucouInput /\ Len(scrubOut) = 2 /\ scrubOut[1] = Chars(", coucou")


(***************************************************************************)
(* Claims about the Template Interpreter (checked under SpecTemplate)      *)
(***************************************************************************)
\* the names the dispatch table knows
DispatchTable ==
    { Chars("étyl"), Chars("polytonique"), Chars("date"), Chars("R"), Chars("réf"),
      Chars("bor"), Chars("borrowed"), Chars("der"), Chars("derived"),
      Chars("inh"), Chars("inherited"),
      Chars("m"), Chars("mention"), Chars("l"), Chars("link"), Chars("lien"),
      Chars("cog"), Chars("cognate") }

\* the parts of the invocation that are named parameters with the given key,
\* and the positional parameters in order
IsNamed(part)  == "=" \in Range(part)
KeyOf(part)    == Strip(SubSeq(part, 1, IndexOf(part, 1, "=") - 1))
ValueOf(part)  == Strip(SubSeq(part, IndexOf(part, 1, "=") + 1, Len(part)))
NamedAt(key)   == {k \in DOMAIN tparts : IsNamed(tparts[k]) /\ KeyOf(tparts[k]) = key}
IsPositional(part) == ~IsNamed(part)
Positionals    == SelectSeq(tparts, IsPositional)
\* the value of a named parameter given at most once; empty when it is not given
NamedValue(key) ==
    IF NamedAt(key) = {} THEN <<>> ELSE ValueOf(tparts[First(NamedAt(key))])

\* C3: a template whose name is not in the dispatch table resolves to the
\* empty string whatever its parameter list, malformed lists included, and
\* the call returns (it raises nothing).
C3_UnknownIsEmpty ==
    (fragment # None /\ Strip(tname) \notin DispatchTable) => fragment = Some(<<>>)

C3_Witness ==
    /\ tname = Chars("calque")
    /\ tparts = <<Chars("="), Chars("mot="), <<>>>>
    /\ fragment = Some(<<>>)

\* C7: for étyl with at least one positional parameter, with L the table
\* name of the first positional parameter (the raw code when the table has
\* no such code), W the value of 'mot' when non-empty and otherwise the third
\* positional parameter when there is one, and T the value of 'tr': the
\* result is '*L* *W* (T)' when W and T are non-empty, '*L* *W*' when only W
\* is, '*L*' when W is missing.  (Each of 'mot' and 'tr' given at most once.)
C7_L == LangName(Strip(Positionals[1]))
C7_W == IF NamedValue(Chars("mot")) # <<>> THEN NamedValue(Chars("mot"))
        ELSE IF Len(Positionals) >= 3 THEN Strip(Positionals[3])
        ELSE <<>>
C7_T == NamedValue(Chars("tr"))
C7_Expected ==
    IF C7_W # <<>> /\ C7_T # <<>>
    THEN <<"*">> \o C7_L \o Chars("* *") \o C7_W \o Chars("* (") \o C7_T \o <<")">>
    ELSE IF C7_W # <<>>
    THEN <<"*">> \o C7_L \o Chars("* *") \o C7_W \o <<"*">>
    ELSE <<"*">> \o C7_L \o <<"*">>
C7_EtylFormat ==
    /\ ( /\ fragment # None
         /\ tname = Chars("étyl")
         /\ Positionals # <<>>
         /\ Cardinality(NamedAt(Chars("mot"))) <= 1
         /\ Cardinality(NamedAt(Chars("tr"))) <= 1 )
       => fragment = Some(C7_Expected)
    /\ ( /\ fragment # None
         /\ tname = Chars("étyl")
         /\ tparts = <<Chars("la"), Chars("fr"), Chars("mot=chaos")>> )
       => fragment = Some(Chars("*latin* *chaos*"))
    /\ ( /\ fragment # None
         /\ tname = Chars("étyl")
         /\ tparts = <<Chars("grc"), Chars("fr"), Chars("mot=χάος"), Chars("tr=kháos")>> )
       => fragment = Some(Chars("*grec ancien* *χάος* (kháos)"))

C7_Witness ==
    /\ tname = Chars("étyl")
    /\ tparts = <<Chars("grc"), Chars("fr"), Chars("mot=χάος"), Chars("tr=kháos")>>
    /\ fragment = Some(Chars("*grec ancien* *χάος* (kháos)"))

\* C8: the templates date, R and réf resolve to the empty string for every
\* parameter list, and the resolver removes the template from the text
\* around it: X{{date|...}}Y becomes XY when X and Y hold no template
\* delimiters of their own.
DateOrRef == {Chars("date"), Chars("R"), Chars("réf")}
NoDelimiters(text) ==
    FindLit(text, 1, Chars("{{")) = 0 /\ FindLit(text, 1, Chars("}}")) = 0
C8_DateRefVanish ==
    tname \in DateOrRef =>
        /\ fragment # None => fragment = Some(<<>>)
        /\ (resolved # None /\ NoDelimiters(around[1]) /\ NoDelimiters(around[2]))
               => resolved = Some(around[1] \o around[2])

C8_Witness ==
    /\ tname = Chars("date")
    /\ tparts = <<Chars("lang=fr")>>
    /\ around = <<Chars("X"), Chars("Y")>>
    /\ fragment = Some(<<>>)
    /\ resolved = Some(Chars("XY"))


(***************************************************************************)
(* Claims about the pipeline (checked under Spec)                          *)
(***************************************************************************)
\* the section text the resolver starts from, once a section was found
Matched == pc \in {"resolve", "scrub", "gate"} \/ (pc = "done" /\ flattens = 1)
Section == Strip(etym_match(wikitext)[1])

\* Nesting of template delimiters, read pair by pair from index i at depth d
\* with greatest depth m so far: the greatest depth reached, or -1 when the
\* braces are not properly nested {{ }} pairs.
RECURSIVE NestingFrom(_, _, _, _)
NestingFrom(s, i, d, m) ==
    LET b == NextBrace(s, i)
    IN  IF b = 0 THEN (IF d = 0 THEN m ELSE -1)
        ELSE IF MatchLit(s, b, Chars("{{"))
        THEN NestingFrom(s, b + 2, d + 1, IF d + 1 > m THEN d + 1 ELSE m)
        ELSE IF MatchLit(s, b, Chars("}}")) /\ d > 0
        THEN NestingFrom(s, b + 2, d - 1, m)
        ELSE -1
TemplateDepth(s) == NestingFrom(s, 1, 0, 0)
OpenBraces(s)    == Cardinality({k \in 1..Len(s) : s[k] = "{"})

\* C2 as stated: the number of passes the resolver loop runs is at most the
\* maximum template nesting depth of the section text.
C2_PassesWithinDepth ==
    Matched =>
        LET depth == TemplateDepth(Section)
        IN  depth >= 0 => passes <= depth

\* C2 as amended: the loop terminates for every section text, after at most
\* n \div 2 + 1 passes for a text with n opening braces; for a text whose
\* braces are properly nested {{ }} pairs of maximum nesting depth d it runs
\* exactly d + 1 passes: d passes that each remove the innermost layer, and
\* one last pass that changes nothing and ends the loop.
C2_PassesWithinDepthPlusOne ==
    Matched =>
        LET section == Section
            depth   == TemplateDepth(section)
        IN  /\ passes <= OpenBraces(section) \div 2 + 1
            /\ depth >= 0 => passes <= depth + 1
            /\ (depth >= 0 /\ pc # "resolve") => passes = depth + 1
            /\ pc # "resolve" => (passes >= 1 /\ prev = Some(ResolvePass(prev[1])))

C2_Witness ==
    /\ pc = "done"
    /\ Matched
    /\ TemplateDepth(Section) = 2
    /\ passes = 3

\* C4: a scrubbed text that is empty or at most 10 characters long gives
\* None, and every result that is not None is longer than 10 characters.
C4_QualityGate ==
    pc = "done" =>
        /\ (Matched /\ Len(etymology) <= 10) => result = None
        /\ result # None => (Len(result[1]) > 10 /\ result[1] = etymology)

C4_Witness ==
    pc = "done" /\ Matched /\ Len(etymology) = 10 /\ result = None

\* C5: a page that holds neither étymologie heading (the templated one or the
\* plain one, in any letter case and spacing inside the heading) gives None.
HeadingAt(s, i, title) ==
    /\ MatchLit(s, i, Chars("==="))
    /\ MatchLitI(s, SkipSpaces(s, i + 3), title)
    /\ MatchLit(s, SkipSpaces(s, SkipSpaces(s, i + 3) + Len(title)), Chars("==="))
HasEtymologieHeading(s) ==
    \E i \in 1..Len(s) :
        HeadingAt(s, i, Chars("{{S|étymologie}}")) \/ HeadingAt(s, i, Chars("Étymologie"))
C5_NoHeadingIsNone ==
    (pc = "done" /\ ~HasEtymologieHeading(wikitext)) => result = None

C5_Witness ==
    /\ pc = "done"
    /\ ~HasEtymologieHeading(wikitext)
    /\ page.head = 6
    /\ page.body = <<1, 6, 2>>
    /\ result = None

\* C9: [[target]] becomes target and [[target|display]] becomes display; the
\* flattening pass runs once, after the resolver loop has reached its fixed
\* point, so a link that a resolved template leaves in the text is flattened.
LinkOrPlain == {4, 5, 6, 7}
Display(f) ==
    IF f = 4 THEN Chars("Chaos")
    ELSE IF f = 5 THEN Chars("chaos")
    ELSE Frags[f]
Flattened == pc \in {"scrub", "gate", "done"} /\ Matched
C9_LinksFlattened ==
    /\ flattens <= 1
    /\ flattens = 1 <=> Flattened
    /\ (pc = "scrub" /\ Range(page.body) \subseteq LinkOrPlain /\ page.head = 1)
           => etymology = Strip(Concat([k \in 1..Len(page.body) |-> Display(page.body[k])]))
    /\ (pc = "scrub" /\ page.body = <<1, 5, 2>> /\ page.head = 1)
           => etymology = Chars("*latin* *chaos*")
    /\ flattens = 1 => (prev # None /\ ResolvePass(prev[1]) = prev[1])

C9_Witness ==
    /\ pc = "done"
    /\ page.body = <<1, 5, 2>>
    /\ page.head = 1
    /\ flattens = 1
    /\ passes = 2
    /\ result = Some(Chars("*latin* *chaos*"))


(***************************************************************************)
(* Claims about the persistence layer (checked under SpecFiles)            *)
(***************************************************************************)
\* C10: whatever process_word_file, process_single_word and process_all runs
\* happen, forced or not, a file whose front matter has a non-empty
\* etymology_alt is never written: every step leaves its etymology,
\* etymology_alt and body as they were, and process_word_file returns False
\* on it.
Protected(p) == Truthy(files[p].etymology_alt)
C10_OverrideProtected ==
    [][\A p \in FilePaths :
           Protected(p) =>
               /\ files'[p] = files[p]
               /\ p \notin written'
               /\ returned'[p] \in {returned[p], Some(FALSE)}
               /\ returned'[p] # Some(TRUE)]_vars

C10_Witness ==
    \E p, q \in FilePaths :
        /\ Protected(p)
        /\ files[p].etymology = "old etymology"
        /\ returned[p] = Some(FALSE)
        /\ q \in written
        /\ files[q].etymology = "fetched etymology"


\* C11: a page that holds one of the two étymologie headings gives the text
\* between that heading and the next heading of the same level, the end of
\* the page when the section is the last one; the extractor gives absence
\* only for a page that holds neither heading.
\* the generated page's section, as the claim has it: its body, and what
\* follows the body when that is not a heading of the same level
C11_Expected ==
    Strip(BodyText(page) \o (IF page.tail = 1 THEN <<>> ELSE Tails[page.tail]))
C11_SectionExtracted ==
    (pc # "search" /\ page.head \in {1, 2, 3, 4}) =>
        /\ HasEtymologieHeading(wikitext)
        /\ Matched
        /\ (pc = "resolve" /\ passes = 0) => etymology = C11_Expected

(***************************************************************************)
(* Further claims about the Template Parser and Interpreter (SpecTemplate) *)
(***************************************************************************)
\* C12: when the invocation gives the same named-parameter key more than
\* once, the handler uses the value of the first occurrence, and the
\* positional parameters are the parts without '=' in their order: so étyl
\* formats the first 'mot' and the first 'tr' whatever comes after them, and
\* {{étyl|la|fr|mot=a|mot=b}} gives '*latin* *a*'.
C12_FirstKeyWins ==
    /\ (fragment # None /\ tname = Chars("étyl") /\ Positionals # <<>>)
           => fragment = Some(C7_Expected)
    /\ ( /\ fragment # None
         /\ tname = Chars("étyl")
         /\ tparts = <<Chars("la"), Chars("fr"), Chars("mot=a"), Chars("mot=b")>> )
       => fragment = Some(Chars("*latin* *a*"))

\* C13: for bor, borrowed, der, derived, inh and inherited, with the language
\* code as second positional parameter and L its table name (the code itself
\* when the table has none): the result is '*L* *W*' when the third
\* positional parameter W is given, and '*L*' for each of the six names when
\* only the language code is given.
C13_Names ==
    { Chars("bor"), Chars("borrowed"), Chars("der"), Chars("derived"),
      Chars("inh"), Chars("inherited") }
C13_L == LangName(Strip(Positionals[2]))
C13_BorDerInh ==
    ( /\ fragment # None
      /\ tname \in C13_Names
      /\ Len(Positionals) >= 2
      /\ Strip(Positionals[2]) # <<>> )
    => /\ (Len(Positionals) >= 3 /\ Strip(Positionals[3]) # <<>>)
              => fragment = Some(<<"*">> \o C13_L \o Chars("* *")
                                     \o Strip(Positionals[3]) \o <<"*">>)
       /\ Len(Positionals) = 2 => fragment = Some(<<"*">> \o C13_L \o <<"*">>)

(***************************************************************************)
(* Claim about the Prose Formatter (checked under SpecProse)               *)
(***************************************************************************)
\* C14: for every name N of the language list, the multi-word names
\* included, and every alphabetic word W, prose that holds 'N W' comes out
\* with exactly N and W italicized: '*N* *W*', the text around it cleaned of
\* tags and entities and otherwise unchanged.
C14_Prefix == << <<>>, Chars("From "), Chars("From the& ") >>
C14_Suffix == << <<>>, Chars("."), Chars(", a word") >>
C14_AlphabeticWords == {k \in DOMAIN ProseWords : Range(ProseWords[k]) \subseteq AsciiLetters}
C14_LanguageAndWordItalic ==
    (formatted # None /\ prose.word \in C14_AlphabeticWords) =>
        formatted = Some(C14_Prefix[prose.pre] \o <<"*">> \o languages[prose.lang]
                             \o Chars("* *") \o ProseWords[prose.word] \o <<"*">>
                             \o C14_Suffix[prose.post])

(***************************************************************************)
(* Claim about the scrubber's reference rule (checked under SpecScrub)     *)
(***************************************************************************)
\* C15: rule 2 removes each reference span, from its opening <ref ...> tag
\* through its own </ref> tag, and each self-closing <ref .../> tag, and
\* nothing else: the text before, between and after them stays, also after
\* a self-closing tag and around a span whose content holds a line break.
\* The text outside the reference tags and spans, read from index i; a tag
\* that is neither self-closing nor the opening of a span of its own (no
\* closing tag, or another opening tag first) is left in the text.
RECURSIVE C15_Outside(_, _)
C15_Outside(s, i) ==
    LET o == FindLit(s, i, Chars("<ref"))
        j == IF o = 0 THEN 0 ELSE IndexOf(s, o + 4, ">")
        c == IF j = 0 THEN 0 ELSE FindLit(s, j + 1, Chars("</ref>"))
        n == IF j = 0 THEN 0 ELSE FindLit(s, j + 1, Chars("<ref"))
    IN  IF o = 0 THEN SubSeq(s, i, Len(s))
        ELSE IF j # 0 /\ s[j - 1] = "/"
        THEN SubSeq(s, i, o - 1) \o C15_Outside(s, j + 1)
        ELSE IF c # 0 /\ (n = 0 \/ n > c)
        THEN SubSeq(s, i, o - 1) \o C15_Outside(s, c + 6)
        ELSE SubSeq(s, i, o) \o C15_Outside(s, o + 1)
C15_RefsRemoved ==
    ( /\ Len(scrubOut) >= 1
      /\ raw \in RefInputs
      /\ "<" \notin Range(C15_Outside(raw, 1)) )
    => scrubOut[1] = Scrub(C15_Outside(raw, 1))
====
